---- MODULE Spec2Model ----
(***************************************************************************)
(* Crumb UI (raspad_main.py): the screen registry and navigation, the      *)
(* three self-rescheduling hub animation loops, the triple-tap exit        *)
(* gesture and the Tk timer queue they all share.                          *)
(*                                                                         *)
(* Time is in milliseconds.  The timer queue holds, for every pending      *)
(* root.after callback, the time that remains until it is due; the clock   *)
(* only advances while no callback is due (simulated clock).  Pointer      *)
(* input arrives on a grid of InputGrid ms.  Lengths of particles are in   *)
(* tenths of a pixel.  Canvas drawing (ripples, glyph text, item           *)
(* coordinates) is not part of the state.                                  *)
(***************************************************************************)
EXTENDS Integers, Sequences, FiniteSets, Bags, TLC

\* ---------------------------------------------------------------- constants
ScreenWidth == 1024
ScreenHeight == 600
ExitRegion == 100
ExitTapGoal == 3
ResetDelay == 2000
BackgroundPeriod == 50
OrbPeriod == 30
CorePeriod == 1000
NavDelay == 200
ErrorReturnDelay == 3000
OverlayDelay == 1500
ErrorLabelDelay == 5000

\* ------------------------------------------------------------------- bounds
MaxPendingResets == 3
MaxPendingNav == 2
MaxTickFailures == 1
MaxElementTicks == 104

\* buttons and orbs are pressed on a grid of InputGrid ms, the screen is
\* tapped on a grid of TapGrid ms; ExamplePause is the pause of the example
\* "tap, wait 3 seconds, tap twice more"
InputGrid == ResetDelay \div 4
TapGrid == 3 * InputGrid
ExamplePause == 2 * TapGrid

ScreenNames == {"hub", "elemental", "soundboard", "archetype", "settings"}
NavIds == ScreenNames \cup {"nonexistent"}
Loops == {"animate_background", "animate_orbs", "animate_central_core"}

\* pointer positions offered to handle_click: inside the corner, on its
\* border (99 is inside, 100 is not) and far away
TapPoints == {<<10, 10>>, <<99, 99>>, <<100, 99>>, <<99, 100>>}

\* the element and settings buttons that are pressed (of Earth, Fire, Water,
\* Air, Aether and of Volume, Brightness, Theme, Reset, About, Exit)
ElementNames == {"Earth", "Aether"}
SettingNames == {"Volume", "Reset", "Exit"}

\* the screens whose builder may raise during construction
Fragile == {"hub", "soundboard"}

VARIABLES
    current_screen,     \* self.current_screen
    screens,            \* self.screens: id -> "view" | "error"
    packed,             \* ids of the frames that are packed (visible)
    hub_canvas,         \* hasattr(self, 'hub_canvas')
    exit_taps,          \* self.exit_taps
    audio_enabled,      \* self.audio_enabled
    mixer,              \* pygame.mixer is initialised
    mainloop,           \* "running" | "quit" (root.quit) | "sys_exit" | "not_started"
    timers,             \* bag of pending after-callbacks [cb, arg, rem]
    last_activity,      \* "now" if self.last_activity was written at this instant, else "past"
    elements,           \* self.background_elements: sequence of [x, y, dx, dy]
    grid,               \* ms since the last tap grid point
    tick_failures,      \* number of animation ticks that raised
    element_ticks,      \* number of particle updates done
    sinceTap,           \* ms since the last qualifying tap, saturating at ExamplePause
    streak,             \* qualifying taps in a row, each < ResetDelay after the previous one
    calmTaps,           \* qualifying taps since the last pause of ExamplePause or more
    lastOp,             \* the handler that ran last and its arguments
    overlays,           \* number of open message overlays (Toplevel windows)
    click_bound,        \* a <Button-1> handler is bound on the root of the window
    window,             \* "main" (CrumbUI root) | "emergency" (window of main) | "none"
    left_hub            \* a screen other than the hub has been current since startup

vars == <<current_screen, screens, packed, hub_canvas, exit_taps, audio_enabled,
          mixer, mainloop, timers, last_activity, elements, grid, tick_failures,
          element_ticks, sinceTap, streak, calmTaps, lastOp,
          overlays, click_bound, window, left_hub>>

\* ------------------------------------------------------------------ helpers
Min(a, b) == IF a < b THEN a ELSE b

Timer(cb, arg, rem) == [cb |-> cb, arg |-> arg, rem |-> rem]

After(q, delay, cb, arg) == q (+) SetToBag({Timer(cb, arg, delay)})

Pending(cb) ==
    LET S == {t \in BagToSet(timers) : t.cb = cb}
        RECURSIVE Sum(_)
        Sum(T) == IF T = {} THEN 0
                  ELSE LET t == CHOOSE u \in T : TRUE
                       IN timers[t] + Sum(T \ {t})
    IN Sum(S)

Due == {t \in BagToSet(timers) : t.rem = 0}

\* a handler run: its name, its arguments, the screen it started on, and
\* whether it ran to its end (ok) or raised
Op(op, arg, x, y, ok) ==
    [op |-> op, arg |-> arg, x |-> x, y |-> y, ok |-> ok, from |-> current_screen]

\* (variant: the border of the corner counts as inside)
InRegion_inclusive(x, y) == x <= ExitRegion /\ y <= ExitRegion

InRegion(x, y) == x < ExitRegion /\ y < ExitRegion

PeriodOf(loop) ==
    CASE loop = "animate_background" -> BackgroundPeriod
      [] loop = "animate_orbs" -> OrbPeriod
      [] loop = "animate_central_core" -> CorePeriod

\* -------------------------------------------------------------- construction
\* CrumbUI.__init__ ran to its end.  failed: the screens whose builder raised
\* (an error screen with its 3 s return timer is registered instead);
\* started: the loops whose first tick, run inside create_hub_screen,
\* scheduled the next one (a first tick that raised did not).
InitWith(failed, started, canvas, audio, elems) ==
    /\ current_screen = "hub"
    /\ screens = [s \in ScreenNames |-> IF s \in failed THEN "error" ELSE "view"]
    /\ packed = {"hub"}
    /\ hub_canvas = canvas
    /\ exit_taps = 0
    /\ audio_enabled = audio
    /\ mixer = audio
    /\ mainloop = "running"
    /\ timers = [t \in {Timer("safe_navigate", "hub", ErrorReturnDelay) : s \in failed}
                       |-> Cardinality(failed)]
                (+) SetToBag({Timer(l, "", PeriodOf(l)) : l \in started})
    /\ last_activity = "now"
    /\ elements = elems
    /\ grid = 0
    /\ tick_failures = IF "hub" \in failed THEN 0 ELSE Cardinality(Loops \ started)
    /\ element_ticks = 0
    /\ sinceTap = ExamplePause
    /\ streak = 0
    /\ calmTaps = 0
    /\ lastOp = Op("__init__", "", 0, 0, TRUE)
    /\ overlays = 0
    /\ click_bound = TRUE
    /\ window = "main"
    /\ left_hub = FALSE

Init ==
    \E failed \in SUBSET Fragile, audio \in BOOLEAN :
        \/ /\ "hub" \notin failed
           /\ InitWith(failed, Loops, TRUE, audio, <<>>)
        \/ /\ "hub" \in failed
           /\ \E canvas \in BOOLEAN : InitWith(failed, {}, canvas, audio, <<>>)

\* the statements of __init__ at which an exception is raised: tk.Tk(), the
\* main container, create_error_screen for a screen whose builder raised,
\* root.bind and setup_continuous_operation
StartupSteps == {"Tk", "main_frame", "create_error_screen", "bind",
                 "setup_continuous_operation"}

\* the statements of __init__ inside its try block (all of them); the
\* except clause calls handle_critical_error, which raises nothing
GuardedSteps == StartupSteps

\* main builds the emergency window, and binds emergency_exit on it, when
\* CrumbUI() or app.run() lets an Exception out
Propagates(step) == step \notin GuardedSteps

\* the screens built before the one for which create_error_screen raised
BuiltBefore(failed_screen) ==
    CASE failed_screen = "hub" -> {}
      [] failed_screen = "elemental" -> {"hub"}
      [] failed_screen = "soundboard" -> {"hub", "elemental"}
      [] failed_screen = "archetype" -> {"hub", "elemental", "soundboard"}
      [] failed_screen = "settings" -> {"hub", "elemental", "soundboard", "archetype"}

\* main() after CrumbUI() in which the statement step raised: __init__
\* returned through its except clause and app.run() entered mainloop on what
\* had been built by then (without a root window run() gives up at once).
\* "unset" and -1 stand for an attribute that was never assigned.
InitRaised(step, failed_screen, audio) ==
    LET rooted == step # "Tk"
        framed == step \notin {"Tk", "main_frame"}
        built == IF ~framed THEN {}
                 ELSE IF step = "create_error_screen" THEN BuiltBefore(failed_screen)
                 ELSE ScreenNames
        shown == step \in {"bind", "setup_continuous_operation"}
    IN /\ current_screen = IF rooted THEN "hub" ELSE "unset"
       /\ screens = [s \in built |-> "view"]
       /\ packed = IF shown THEN {"hub"} ELSE {}
       /\ hub_canvas = ("hub" \in built)
       /\ exit_taps = IF shown THEN 0 ELSE -1
       /\ audio_enabled = (rooted /\ audio)
       /\ mixer = (rooted /\ audio)
       /\ mainloop = IF Propagates(step) \/ rooted THEN "running" ELSE "not_started"
       /\ timers = SetToBag({Timer(l, "", PeriodOf(l)) : l \in IF "hub" \in built THEN Loops ELSE {}})
                   (+) SetToBag({Timer("error_label.destroy", "", ErrorLabelDelay) :
                                    b \in IF rooted THEN {TRUE} ELSE {}})
       /\ last_activity = "now"
       /\ elements = <<>>
       /\ grid = 0
       /\ tick_failures = 0
       /\ element_ticks = 0
       /\ sinceTap = ExamplePause
       /\ streak = 0
       /\ calmTaps = 0
       /\ lastOp = Op("__init__", step, 0, 0, FALSE)
       /\ overlays = 0
       /\ click_bound = (Propagates(step) \/ step = "setup_continuous_operation")
       /\ window = IF Propagates(step) THEN "emergency"
                   ELSE IF rooted THEN "main" ELSE "none"
       /\ left_hub = FALSE

\* The 5 s timer of handle_critical_error is due: error_label.destroy.
ErrorLabelDestroy ==
    \E t \in Due :
        /\ mainloop = "running"
        /\ t.cb = "error_label.destroy"
        /\ timers' = timers (-) SetToBag({t})
        /\ lastOp' = Op("error_label.destroy", "", 0, 0, TRUE)
        /\ UNCHANGED <<current_screen, screens, packed, hub_canvas, exit_taps, audio_enabled,
                       mixer, mainloop, last_activity, elements>>
        /\ UNCHANGED <<grid, tick_failures, element_ticks, sinceTap, streak, calmTaps>>
        /\ UNCHANGED <<overlays, click_bound, window, left_hub>>

\* ------------------------------------------------------------------ gesture
\* graceful_exit: raises = pygame.mixer.quit() raised, the bare except then
\* calls sys.exit(0) and SystemExit leaves the handler that called it.
\* (variant: the event loop is only left when audio is enabled)
graceful_exit_audio_only(raises) ==
    IF raises
    THEN /\ mainloop' = "sys_exit"
         /\ UNCHANGED mixer
    ELSE /\ mixer' = IF audio_enabled THEN FALSE ELSE mixer
         /\ mainloop' = IF audio_enabled THEN "quit" ELSE mainloop

graceful_exit(raises) ==
    IF raises
    THEN /\ mainloop' = "sys_exit"
         /\ UNCHANGED mixer
    ELSE /\ mixer' = IF audio_enabled THEN FALSE ELSE mixer
         /\ mainloop' = "quit"

\* (variant: shutdown needs a fourth tap)
handle_click_fourth(x, y, raises) ==
    /\ last_activity' = "now"
    /\ IF InRegion(x, y)
       THEN /\ exit_taps' = exit_taps + 1
            /\ IF exit_taps + 1 > ExitTapGoal
               THEN /\ graceful_exit(raises)
                    /\ timers' = IF raises THEN timers
                                 ELSE After(timers, ResetDelay, "reset_exit_counter", "")
               ELSE /\ UNCHANGED <<mixer, mainloop>>
                    /\ timers' = After(timers, ResetDelay, "reset_exit_counter", "")
       ELSE UNCHANGED <<exit_taps, timers, mixer, mainloop>>
    /\ UNCHANGED <<current_screen, screens, packed, hub_canvas, audio_enabled, elements>>

\* (variant: the reset is scheduled 3 s after the tap)
handle_click_late(x, y, raises) ==
    /\ last_activity' = "now"
    /\ IF InRegion(x, y)
       THEN /\ exit_taps' = exit_taps + 1
            /\ IF exit_taps + 1 >= ExitTapGoal
               THEN /\ graceful_exit(raises)
                    /\ timers' = IF raises THEN timers
                                 ELSE After(timers, ErrorReturnDelay, "reset_exit_counter", "")
               ELSE /\ UNCHANGED <<mixer, mainloop>>
                    /\ timers' = After(timers, ErrorReturnDelay, "reset_exit_counter", "")
       ELSE UNCHANGED <<exit_taps, timers, mixer, mainloop>>
    /\ UNCHANGED <<current_screen, screens, packed, hub_canvas, audio_enabled, elements>>

handle_click(x, y, raises) ==
    /\ last_activity' = "now"
    /\ IF InRegion(x, y)
       THEN /\ exit_taps' = exit_taps + 1
            /\ IF exit_taps + 1 >= ExitTapGoal
               THEN /\ graceful_exit(raises)
                    /\ timers' = IF raises THEN timers
                                 ELSE After(timers, ResetDelay, "reset_exit_counter", "")
               ELSE /\ UNCHANGED <<mixer, mainloop>>
                    /\ timers' = After(timers, ResetDelay, "reset_exit_counter", "")
       ELSE UNCHANGED <<exit_taps, timers, mixer, mainloop>>
    /\ UNCHANGED <<current_screen, screens, packed, hub_canvas, audio_enabled, elements>>

reset_exit_counter(rest) ==
    /\ exit_taps' = 0
    /\ timers' = rest
    /\ UNCHANGED <<current_screen, screens, packed, hub_canvas, audio_enabled,
                   mixer, mainloop, last_activity, elements>>

\* A pointer-down event reaches the root binding.
Tap ==
    \E p \in TapPoints, raises \in BOOLEAN :
        /\ mainloop = "running"
        /\ click_bound
        /\ overlays = 0
        /\ grid = 0
        /\ InRegion(p[1], p[2]) => Pending("reset_exit_counter") < MaxPendingResets
        /\ raises => (audio_enabled /\ InRegion(p[1], p[2]) /\ exit_taps + 1 >= ExitTapGoal)
        /\ handle_click(p[1], p[2], raises)
        /\ IF InRegion(p[1], p[2])
           THEN /\ sinceTap' = 0
                /\ streak' = IF sinceTap < ResetDelay THEN Min(ExitTapGoal, streak + 1) ELSE 1
                /\ calmTaps' = IF sinceTap >= ExamplePause THEN 1
                               ELSE Min(ExitTapGoal, calmTaps + 1)
           ELSE /\ streak' = 0
                /\ UNCHANGED <<sinceTap, calmTaps>>
        /\ lastOp' = Op("handle_click", "", p[1], p[2], ~raises)
        /\ UNCHANGED <<grid, tick_failures, element_ticks>>
        /\ UNCHANGED <<overlays, click_bound, window, left_hub>>

\* The 2 s timer of a qualifying tap is due.
TimerReset ==
    \E t \in Due :
        /\ mainloop = "running"
        /\ t.cb = "reset_exit_counter"
        /\ reset_exit_counter(timers (-) SetToBag({t}))
        /\ lastOp' = Op("reset_exit_counter", "", 0, 0, TRUE)
        /\ UNCHANGED <<grid, tick_failures, element_ticks, sinceTap, streak, calmTaps>>
        /\ UNCHANGED <<overlays, click_bound, window, left_hub>>

\* --------------------------------------------------------------------- time
\* The event loop waits: the clock moves to the next due callback or to the
\* next input grid point, whichever comes first.
Step == LET rems == {t.rem : t \in BagToSet(timers)} \cup {InputGrid - (grid % InputGrid)}
        IN CHOOSE d \in rems : \A e \in rems : d <= e

Elapse(q, d) ==
    LET S == {Timer(t.cb, t.arg, t.rem - d) : t \in BagToSet(q)}
    IN [u \in S |-> q[Timer(u.cb, u.arg, u.rem + d)]]

Advance ==
    /\ mainloop = "running"
    /\ Due = {}
    /\ timers' = Elapse(timers, Step)
    /\ grid' = (grid + Step) % TapGrid
    /\ sinceTap' = Min(ExamplePause, sinceTap + Step)
    /\ last_activity' = "past"
    /\ lastOp' = Op("wait", "", 0, 0, TRUE)
    /\ UNCHANGED <<current_screen, screens, packed, hub_canvas, exit_taps, audio_enabled,
                   mixer, mainloop, elements, tick_failures, element_ticks, streak, calmTaps>>
    /\ UNCHANGED <<overlays, click_bound, window, left_hub>>

\* --------------------------------------------------------------- navigation
\* (variant: no fallback to the hub)
show_screen_nofallback(screen_name) ==
    /\ packed' = (packed \ DOMAIN screens) \cup {screen_name}
    /\ current_screen' = screen_name

\* (variant: the other screens are not hidden)
show_screen_nohide(screen_name) ==
    LET target_screen == IF screen_name \in DOMAIN screens THEN screen_name ELSE "hub"
    IN /\ packed' = packed \cup {target_screen}
       /\ current_screen' = target_screen

show_screen(screen_name) ==
    LET target_screen == IF screen_name \in DOMAIN screens THEN screen_name ELSE "hub"
    IN /\ packed' = (packed \ DOMAIN screens) \cup {target_screen}
       /\ current_screen' = target_screen

safe_navigate(screen_name) ==
    /\ show_screen(screen_name)
    /\ last_activity' = "now"
    /\ UNCHANGED <<screens, hub_canvas, exit_taps, audio_enabled, mixer, mainloop, elements>>

\* centre of the orb that leads to a screen (canvas coordinates)
OrbCentre(screen_name) ==
    CASE screen_name = "elemental" -> <<512 - 120, 350 - 80>>
      [] screen_name = "soundboard" -> <<512 + 120, 350 - 80>>
      [] screen_name = "archetype" -> <<512 - 120, 350 + 80>>
      [] screen_name = "settings" -> <<512 + 120, 350 + 80>>

OrbTargets == {"elemental", "soundboard", "archetype", "settings"}

\* (variant: the target is shown in the click itself)
orb_click_effect_immediate(screen_name) ==
    /\ packed' = (packed \ DOMAIN screens) \cup {screen_name}
    /\ current_screen' = screen_name
    /\ UNCHANGED <<timers, screens, hub_canvas, exit_taps,
                   audio_enabled, mixer, mainloop, elements>>

\* (variant: the navigation is scheduled after 1 s)
orb_click_effect_slow(screen_name) ==
    /\ timers' = After(timers, CorePeriod, "safe_navigate", screen_name)
    /\ UNCHANGED <<current_screen, screens, packed, hub_canvas, exit_taps,
                   audio_enabled, mixer, mainloop, elements>>

orb_click_effect(screen_name) ==
    /\ timers' = After(timers, NavDelay, "safe_navigate", screen_name)
    /\ UNCHANGED <<current_screen, screens, packed, hub_canvas, exit_taps,
                   audio_enabled, mixer, mainloop, elements>>

PendingOrbNav ==
    LET S == {t \in BagToSet(timers) : t.cb = "safe_navigate" /\ t.arg # "hub"}
        RECURSIVE Sum(_)
        Sum(T) == IF T = {} THEN 0
                  ELSE LET t == CHOOSE u \in T : TRUE
                       IN timers[t] + Sum(T \ {t})
    IN Sum(S)

\* Button-1 on an orb of the visible hub canvas: the tag binding runs
\* orb_click_effect, then the root binding runs handle_click with the
\* pointer at the orb, which is outside the exit corner.
OrbClick ==
    \E s \in OrbTargets :
        /\ mainloop = "running"
        /\ grid % InputGrid = 0
        /\ packed = {"hub"}
        /\ screens["hub"] = "view"
        /\ overlays = 0
        /\ PendingOrbNav < MaxPendingNav
        /\ ~InRegion(OrbCentre(s)[1], OrbCentre(s)[2])
        /\ orb_click_effect(s)
        /\ last_activity' = "now"
        /\ streak' = 0
        /\ lastOp' = Op("orb_click_effect", s, OrbCentre(s)[1], OrbCentre(s)[2], TRUE)
        /\ UNCHANGED <<grid, tick_failures, element_ticks, sinceTap, calmTaps>>
        /\ UNCHANGED <<overlays, click_bound, window, left_hub>>

\* The "<- Hub" button of the header of a destination screen.
BackButton ==
    /\ mainloop = "running"
    /\ grid % InputGrid = 0
    /\ current_screen # "hub"
    /\ current_screen \in DOMAIN screens
    /\ current_screen \in packed
    /\ screens[current_screen] = "view"
    /\ overlays = 0
    /\ safe_navigate("hub")
    /\ lastOp' = Op("safe_navigate", "hub", 0, 0, TRUE)
    /\ UNCHANGED <<timers, grid, tick_failures, element_ticks, sinceTap, streak, calmTaps>>
    /\ left_hub' = (left_hub \/ current_screen' # "hub")
    /\ UNCHANGED <<overlays, click_bound, window>>

\* A delayed navigation is due: the 200 ms one of an orb or the 3 s one of
\* an error screen.
TimerNavigate ==
    \E t \in Due :
        /\ mainloop = "running"
        /\ t.cb = "safe_navigate"
        /\ safe_navigate(t.arg)
        /\ timers' = timers (-) SetToBag({t})
        /\ lastOp' = Op("safe_navigate", t.arg, 0, 0, TRUE)
        /\ UNCHANGED <<grid, tick_failures, element_ticks, sinceTap, streak, calmTaps>>
        /\ left_hub' = (left_hub \/ current_screen' # "hub")
        /\ UNCHANGED <<overlays, click_bound, window>>

\* A direct call of safe_navigate with any identifier.
Navigate ==
    \E id \in NavIds :
        /\ mainloop = "running"
        /\ grid % InputGrid = 0
        /\ safe_navigate(id)
        /\ lastOp' = Op("safe_navigate", id, 0, 0, TRUE)
        /\ UNCHANGED <<timers, grid, tick_failures, element_ticks, sinceTap, streak, calmTaps>>
        /\ left_hub' = (left_hub \/ current_screen' # "hub")
        /\ UNCHANGED <<overlays, click_bound, window>>

\* ------------------------------------------------------------- placeholders
\* show_temporary_message opens a fullscreen Toplevel above the root window
\* (line 726); while one is open the pointer reaches neither the widgets of
\* the root window nor its <Button-1> binding, hence overlays = 0 in the
\* guard of every pointer action.
\* (variant: the overlay is never closed)
show_temporary_message_sticky ==
    /\ overlays' = overlays + 1
    /\ timers' = timers

show_temporary_message ==
    /\ overlays' = overlays + 1
    /\ timers' = After(timers, OverlayDelay, "overlay.destroy", "")

activate_element(element_name) ==
    /\ show_temporary_message
    /\ UNCHANGED <<current_screen, screens, packed, hub_canvas, exit_taps,
                   audio_enabled, mixer, mainloop, last_activity, elements>>

\* raises = pygame.mixer.quit() raised inside graceful_exit
handle_setting(setting_name, raises) ==
    /\ IF setting_name = "Exit"
       THEN /\ graceful_exit(raises)
            /\ UNCHANGED <<overlays, timers>>
       ELSE /\ show_temporary_message
            /\ UNCHANGED <<mixer, mainloop>>
    /\ UNCHANGED <<current_screen, screens, packed, hub_canvas, exit_taps,
                   audio_enabled, last_activity, elements>>

\* A button of the elemental screen is pressed.
ActivateElement ==
    \E n \in ElementNames :
        /\ mainloop = "running"
        /\ grid % InputGrid = 0
        /\ packed = {"elemental"}
        /\ screens["elemental"] = "view"
        /\ overlays = 0
        /\ activate_element(n)
        /\ lastOp' = Op("activate_element", n, 0, 0, TRUE)
        /\ UNCHANGED <<grid, tick_failures, element_ticks, sinceTap, streak, calmTaps>>
        /\ UNCHANGED <<click_bound, window, left_hub>>

\* A button of the settings screen is pressed.
HandleSetting ==
    \E n \in SettingNames, raises \in BOOLEAN :
        /\ mainloop = "running"
        /\ grid % InputGrid = 0
        /\ packed = {"settings"}
        /\ screens["settings"] = "view"
        /\ overlays = 0
        /\ raises => (n = "Exit" /\ audio_enabled)
        /\ handle_setting(n, raises)
        /\ lastOp' = Op("handle_setting", n, 0, 0, ~raises)
        /\ UNCHANGED <<grid, tick_failures, element_ticks, sinceTap, streak, calmTaps>>
        /\ UNCHANGED <<click_bound, window, left_hub>>

\* The 1.5 s timer of an overlay is due: overlay.destroy.
OverlayDestroy ==
    \E t \in Due :
        /\ mainloop = "running"
        /\ t.cb = "overlay.destroy"
        /\ overlays' = overlays - 1
        /\ timers' = timers (-) SetToBag({t})
        /\ lastOp' = Op("overlay.destroy", "", 0, 0, TRUE)
        /\ UNCHANGED <<current_screen, screens, packed, hub_canvas, exit_taps, audio_enabled,
                       mixer, mainloop, last_activity, elements>>
        /\ UNCHANGED <<grid, tick_failures, element_ticks, sinceTap, streak, calmTaps>>
        /\ UNCHANGED <<click_bound, window, left_hub>>

\* ---------------------------------------------------------------- animation
\* sin(phase) * 0.2 in tenths of a pixel: any value of its range
SinSteps == {-2, 0, 2}

\* (variant: only the lower edge wraps)
Wrap_lower_only(v, limit) == IF v < 0 THEN limit ELSE v

Wrap(v, limit) ==
    LET w == IF v < 0 THEN limit ELSE v
    IN IF w > limit THEN 0 ELSE w

MoveElement(e, s) ==
    [x |-> Wrap(e.x + e.dx, ScreenWidth * 10),
     y |-> Wrap(e.y + e.dy + s, ScreenHeight * 10),
     dx |-> e.dx, dy |-> e.dy]

\* The three ticks.  raises: an exception leaves the try block before the
\* rescheduling line; done is the number of elements already moved then.
animate_background(rest, raises, done, sins) ==
    /\ elements' = [i \in DOMAIN elements |->
                      IF raises /\ i > done THEN elements[i]
                      ELSE MoveElement(elements[i], sins[i])]
    /\ timers' = IF ~raises /\ hub_canvas /\ current_screen = "hub"
                 THEN After(rest, BackgroundPeriod, "animate_background", "")
                 ELSE rest
    /\ UNCHANGED <<current_screen, screens, packed, hub_canvas, exit_taps,
                   audio_enabled, mixer, mainloop, last_activity>>

\* (variant: the tick reschedules itself whatever the current screen is)
animate_orbs_always(rest, raises) ==
    /\ timers' = IF ~raises THEN After(rest, OrbPeriod, "animate_orbs", "") ELSE rest
    /\ UNCHANGED <<current_screen, screens, packed, hub_canvas, exit_taps,
                   audio_enabled, mixer, mainloop, last_activity, elements>>

\* (variant: the tick never schedules its successor)
animate_orbs_once(rest, raises) ==
    /\ timers' = rest
    /\ UNCHANGED <<current_screen, screens, packed, hub_canvas, exit_taps,
                   audio_enabled, mixer, mainloop, last_activity, elements>>

animate_orbs(rest, raises) ==
    /\ timers' = IF ~raises /\ hub_canvas /\ current_screen = "hub"
                 THEN After(rest, OrbPeriod, "animate_orbs", "")
                 ELSE rest
    /\ UNCHANGED <<current_screen, screens, packed, hub_canvas, exit_taps,
                   audio_enabled, mixer, mainloop, last_activity, elements>>

\* (variant: the tick schedules its successor twice)
animate_central_core_twice(rest, raises) ==
    /\ timers' = IF ~raises /\ hub_canvas /\ current_screen = "hub"
                 THEN After(After(rest, CorePeriod, "animate_central_core", ""),
                            CorePeriod, "animate_central_core", "")
                 ELSE rest
    /\ UNCHANGED <<current_screen, screens, packed, hub_canvas, exit_taps,
                   audio_enabled, mixer, mainloop, last_activity, elements>>

animate_central_core(rest, raises) ==
    /\ timers' = IF ~raises /\ hub_canvas /\ current_screen = "hub"
                 THEN After(rest, CorePeriod, "animate_central_core", "")
                 ELSE rest
    /\ UNCHANGED <<current_screen, screens, packed, hub_canvas, exit_taps,
                   audio_enabled, mixer, mainloop, last_activity, elements>>

RunBackground(raises) ==
    \E t \in Due, done \in 0..Len(elements), sins \in [DOMAIN elements -> SinSteps] :
        /\ mainloop = "running"
        /\ t.cb = "animate_background"
        /\ raises => tick_failures < MaxTickFailures
        /\ ~raises => done = Len(elements)
        /\ elements # <<>> => element_ticks < MaxElementTicks
        /\ animate_background(timers (-) SetToBag({t}), raises, done, sins)
        /\ tick_failures' = IF raises THEN tick_failures + 1 ELSE tick_failures
        /\ element_ticks' = IF elements # <<>> THEN element_ticks + 1 ELSE element_ticks
        /\ lastOp' = Op("animate_background", "", 0, 0, ~raises)
        /\ UNCHANGED <<grid, sinceTap, streak, calmTaps>>
        /\ UNCHANGED <<overlays, click_bound, window, left_hub>>

RunOrbs(raises) ==
    \E t \in Due :
        /\ mainloop = "running"
        /\ t.cb = "animate_orbs"
        /\ raises => tick_failures < MaxTickFailures
        /\ animate_orbs(timers (-) SetToBag({t}), raises)
        /\ tick_failures' = IF raises THEN tick_failures + 1 ELSE tick_failures
        /\ lastOp' = Op("animate_orbs", "", 0, 0, ~raises)
        /\ UNCHANGED <<grid, element_ticks, sinceTap, streak, calmTaps>>
        /\ UNCHANGED <<overlays, click_bound, window, left_hub>>

RunCore(raises) ==
    \E t \in Due :
        /\ mainloop = "running"
        /\ t.cb = "animate_central_core"
        /\ raises => tick_failures < MaxTickFailures
        /\ animate_central_core(timers (-) SetToBag({t}), raises)
        /\ tick_failures' = IF raises THEN tick_failures + 1 ELSE tick_failures
        /\ lastOp' = Op("animate_central_core", "", 0, 0, ~raises)
        /\ UNCHANGED <<grid, element_ticks, sinceTap, streak, calmTaps>>
        /\ UNCHANGED <<overlays, click_bound, window, left_hub>>

\* a tick that runs to its end, and a tick in which a canvas call raises
TickBackground ==
    /\ Pending("animate_background") > 0
    /\ RunBackground(FALSE)
TickOrbs ==
    /\ Pending("animate_orbs") > 0
    /\ RunOrbs(FALSE)
TickCore ==
    /\ Pending("animate_central_core") > 0
    /\ RunCore(FALSE)
FailBackground ==
    /\ Pending("animate_background") > 0
    /\ RunBackground(TRUE)
FailOrbs ==
    /\ Pending("animate_orbs") > 0
    /\ RunOrbs(TRUE)
FailCore ==
    /\ Pending("animate_central_core") > 0
    /\ RunCore(TRUE)

\* ------------------------------------------------------------ specifications
Next ==
    \/ Tap
    \/ TimerReset
    \/ OrbClick
    \/ BackButton
    \/ TimerNavigate
    \/ TickBackground
    \/ TickOrbs
    \/ TickCore
    \/ ActivateElement
    \/ HandleSetting
    \/ OverlayDestroy
    \/ Advance

Spec == Init /\ [][Next]_vars

\* the same program when canvas calls may raise inside a tick, the first
\* tick of a loop (run during construction) included
InitFaults ==
    \/ Init
    \/ \E failed \in SUBSET (Fragile \ {"hub"}), audio \in BOOLEAN, started \in SUBSET Loops :
          /\ Cardinality(Loops \ started) \in 1..MaxTickFailures
          /\ InitWith(failed, started, TRUE, audio, <<>>)

NextFaults == Next \/ FailBackground \/ FailOrbs \/ FailCore

SpecFaults == InitFaults /\ [][NextFaults]_vars

\* the program after a start in which a statement of __init__ raised
InitStartup ==
    \E step \in StartupSteps, failed_screen \in Fragile, audio \in BOOLEAN :
        InitRaised(step, failed_screen, audio)

NextStartup == Next \/ ErrorLabelDestroy

SpecStartup == InitStartup /\ [][NextStartup]_vars

\* the navigation controller driven through its contract: safe_navigate is
\* called with any identifier, next to orbs, back buttons and timers; the
\* screen is not tapped
NextNavigate ==
    \/ Navigate
    \/ OrbClick
    \/ BackButton
    \/ TimerNavigate
    \/ TickBackground
    \/ TickOrbs
    \/ TickCore
    \/ Advance

SpecNavigate == Init /\ [][NextNavigate]_vars


\* the particle loop with one particle tracked, created at a corner of the
\* creation range (x in 50..974, y in 50..550) with the fastest drift
ElementStarts ==
    {[x |-> x0 * 10, y |-> y0 * 10, dx |-> dx, dy |-> dy] :
        x0 \in {50, 974}, y0 \in {50, 550}, dx \in {-5, 5}, dy \in {-3, 3}}

InitElements ==
    \E e \in ElementStarts :
        /\ InitWith({}, Loops, TRUE, TRUE, <<e>>)

NextElements == TickBackground \/ TickOrbs \/ TickCore \/ Advance

SpecElements == InitElements /\ [][NextElements]_vars

\* =================================================================== claims
\* the top-left 100x100 region of the layout
Corner(x, y) == x \in 0..99 /\ y \in 0..99

QualifyingTap(op) == op.op = "handle_click" /\ Corner(op.x, op.y)

\* C1 (as claimed): a third consecutive corner tap, each tap less than 2 s
\* after the previous one, has triggered shutdown; and shutdown is never
\* triggered by a tap when fewer than three corner taps came after the last
\* pause of 3 s (tap, 3 s pause, two more taps: no shutdown).
C1_ExitGesture ==
    /\ (QualifyingTap(lastOp) /\ streak >= ExitTapGoal) => mainloop # "running"
    /\ (QualifyingTap(lastOp) /\ mainloop # "running") => calmTaps >= ExitTapGoal

\* C2 (as claimed): when a timer has just set the exit-tap counter back to
\* zero, at least 2 s have passed since the most recent corner tap.
C2_ResetOnlyAfterQuiet ==
    lastOp.op = "reset_exit_counter" => sinceTap >= ResetDelay

C4_QuietMeansZero ==
    (/\ mainloop = "running"
     /\ sinceTap >= ResetDelay
     /\ \A t \in Due : t.cb # "reset_exit_counter") => exit_taps = 0

C4_Witness ==
    /\ lastOp.op = "reset_exit_counter"
    /\ sinceTap = ResetDelay
    /\ exit_taps = 0
    /\ streak >= 2

\* C5: a navigation to an identifier that is not registered ends with the
\* hub visible and current.
C5_UnknownGoesToHub ==
    (lastOp.op = "safe_navigate" /\ lastOp.arg \notin DOMAIN screens)
        => (current_screen = "hub" /\ packed = {"hub"})

C5_Witness ==
    /\ lastOp.op = "safe_navigate"
    /\ lastOp.arg = "nonexistent"
    /\ lastOp.from = "soundboard"
    /\ packed = {"hub"}

\* C6: exactly one registered screen is visible and it is the current one.
C6_OneVisible ==
    /\ current_screen \in DOMAIN screens
    /\ Cardinality(packed) = 1
    /\ packed = {current_screen}

C6_Witness ==
    /\ lastOp.op = "safe_navigate"
    /\ lastOp.from = "hub"
    /\ current_screen = "settings"
    /\ packed = {"settings"}

\* C7: a tick that ran while the current screen is not the hub left no
\* pending tick of its loop, and off the hub no loop has more than one.
C7_TicksCeaseOffHub ==
    \A l \in Loops :
        /\ (lastOp.op = l /\ current_screen # "hub") => Pending(l) = 0
        /\ current_screen # "hub" => Pending(l) <= 1

C7_Witness ==
    /\ lastOp.op = "animate_central_core"
    /\ lastOp.ok
    /\ current_screen = "elemental"
    /\ \A l \in Loops : Pending(l) = 0

\* C8 (as claimed): when a navigation has just shown the hub view, and no
\* tick has raised, each of the three loops has a pending tick.
C8_HubRestartsLoops ==
    (/\ lastOp.op = "safe_navigate"
     /\ current_screen = "hub"
     /\ screens["hub"] = "view"
     /\ tick_failures = 0) => \A l \in Loops : Pending(l) >= 1

\* C9 (as claimed): a tick that raised while the hub is current has scheduled
\* the next tick of its loop at the normal period.
C9_FailedTickReschedules ==
    \A l \in Loops :
        (lastOp.op = l /\ ~lastOp.ok /\ current_screen = "hub")
            => BagIn(Timer(l, "", PeriodOf(l)), timers)

\* C10 (as claimed): every particle is in [0, 1024) x [0, 600).
C10_HalfOpenBounds ==
    \A i \in DOMAIN elements :
        /\ 0 <= elements[i].x /\ elements[i].x < ScreenWidth * 10
        /\ 0 <= elements[i].y /\ elements[i].y < ScreenHeight * 10

\* C10 (amended): every particle is in [0, 1024] x [0, 600], both edges
\* included.
C10_ClosedBounds ==
    \A i \in DOMAIN elements :
        /\ 0 <= elements[i].x /\ elements[i].x <= ScreenWidth * 10
        /\ 0 <= elements[i].y /\ elements[i].y <= ScreenHeight * 10

C10_Witness ==
    /\ lastOp.op = "animate_background"
    /\ element_ticks > 100
    /\ elements[1].x = ScreenWidth * 10

\* C15: an orb click leaves the current and the visible screen as they are
\* and adds exactly one navigation to the orb's target, due 200 ms later;
\* when a delayed navigation to an orb's target has run, that target is the
\* visible and current screen.
C15_OrbNavigatesLater ==
    [][/\ lastOp'.op = "orb_click_effect"
            => /\ current_screen' = current_screen
               /\ packed' = packed
               /\ timers' = After(timers, NavDelay, "safe_navigate", lastOp'.arg)
       /\ (lastOp'.op = "safe_navigate" /\ lastOp'.arg \in OrbTargets)
            => /\ BagIn(Timer("safe_navigate", lastOp'.arg, 0), timers)
               /\ current_screen' = lastOp'.arg
               /\ packed' = {lastOp'.arg}]_vars

C15_Witness ==
    /\ lastOp.op = "safe_navigate"
    /\ lastOp.arg = "archetype"
    /\ lastOp.from = "hub"
    /\ current_screen = "archetype"
    /\ packed = {"archetype"}
    /\ PendingOrbNav = 0

\* C17 (as claimed): the current screen changes to a non-hub screen only in
\* a step that starts with the hub current.
C17_NonHubOnlyFromHub ==
    [][(current_screen' # current_screen /\ current_screen' # "hub")
            => current_screen = "hub"]_vars

\* C17 (amended): the current screen changes to a non-hub screen only when a
\* due delayed navigation to that screen runs, and an orb is only clicked
\* while the hub is the visible and current screen.
C17_NonHubOnlyByOrbTimer ==
    [][/\ (current_screen' # current_screen /\ current_screen' # "hub")
            => /\ lastOp'.op = "safe_navigate"
               /\ lastOp'.arg = current_screen'
               /\ BagIn(Timer("safe_navigate", current_screen', 0), timers)
               /\ timers' = timers (-) SetToBag({Timer("safe_navigate", current_screen', 0)})
       /\ lastOp'.op = "orb_click_effect"
            => (current_screen = "hub" /\ packed = {"hub"})]_vars

C17_Witness ==
    /\ lastOp.op = "safe_navigate"
    /\ lastOp.from = "elemental"
    /\ lastOp.arg = "soundboard"
    /\ current_screen = "soundboard"
    /\ screens["soundboard"] = "view"

\* C18: no animation loop ever has more than one pending tick, on the hub or
\* off it, before or after a return to the hub.
C18_OnePendingTickPerLoop ==
    \A l \in Loops : Pending(l) <= 1

C18_Witness ==
    /\ lastOp.op = "safe_navigate"
    /\ lastOp.from = "settings"
    /\ current_screen = "hub"
    /\ Pending("animate_central_core") = 1
    /\ Pending("animate_orbs") = 0

\* C13: a corner tap that brings the exit-tap counter to 3 has, when its
\* handler returns, stopped the mixer (if audio is enabled and the mixer did
\* not raise) and ended the event loop, on whatever screen is current; the
\* handler started with the counter at 2, so no reset ran in between; and
\* once the event loop has ended no callback and no tap is processed.
C13_ThirdTapShutsDown ==
    [][/\ mainloop = "running"
       /\ (QualifyingTap(lastOp') /\ exit_taps' >= ExitTapGoal)
            => /\ exit_taps = ExitTapGoal - 1
               /\ mainloop' \in {"quit", "sys_exit"}
               /\ (mainloop' = "quit" /\ audio_enabled) => ~mixer']_vars

C13_Witness ==
    /\ QualifyingTap(lastOp)
    /\ lastOp.from = "archetype"
    /\ exit_taps = ExitTapGoal
    /\ mainloop = "quit"
    /\ audio_enabled
    /\ ~mixer
    /\ Pending("reset_exit_counter") = ExitTapGoal

\* C19: the exit-tap counter is one of 0, 1, 2, 3; it is 3 only when the
\* event loop has been ended by shutdown, and it does not change after that.
C19_CounterRange ==
    [][/\ exit_taps' \in 0..ExitTapGoal
       /\ exit_taps' = ExitTapGoal => mainloop' \in {"quit", "sys_exit"}
       /\ mainloop # "running" => exit_taps' = exit_taps]_vars

C19_Witness ==
    /\ exit_taps = ExitTapGoal
    /\ mainloop = "sys_exit"
    /\ lastOp.op = "handle_click"
    /\ ~lastOp.ok

\* an error screen (built in place of a screen whose builder raised) other
\* than the hub's is the visible and current screen
ErrorScreenShown ==
    /\ current_screen # "hub"
    /\ current_screen \in packed
    /\ screens[current_screen] = "error"

\* C12 (as claimed): while an error screen is the visible one, a return to
\* the hub is pending and due at most 3 s later; and a 3 s return timer that
\* runs changes the visible screen only if an error screen was the one shown.
C12_ErrorScreenAutoReturns ==
    [][/\ ErrorScreenShown'
            => \E t \in BagToSet(timers') :
                  t.cb = "safe_navigate" /\ t.arg = "hub" /\ t.rem <= ErrorReturnDelay
       /\ (/\ lastOp'.op = "safe_navigate"
           /\ BagIn(Timer("safe_navigate", "hub", 0), timers)
           /\ timers' = timers (-) SetToBag({Timer("safe_navigate", "hub", 0)})
           /\ packed' # packed)
            => ErrorScreenShown]_vars

\* C16 (as claimed): when no tick has raised, either each of the three
\* loops has a pending tick or none of them has.
C16_LoopsAllOrNone ==
    tick_failures = 0 =>
        \/ \A l \in Loops : Pending(l) >= 1
        \/ \A l \in Loops : Pending(l) = 0

\* C16 (amended): when no tick has raised and the hub view has been the
\* current screen ever since startup, each of the three loops has exactly
\* one pending tick.
C16_LoopsAllWhileOnHub ==
    (tick_failures = 0 /\ ~left_hub /\ screens["hub"] = "view")
        => \A l \in Loops : Pending(l) = 1

C16_Witness ==
    /\ ~left_hub
    /\ tick_failures = 0
    /\ lastOp.op = "animate_central_core"
    /\ exit_taps = 2
    /\ PendingOrbNav = 1
    /\ \A l \in Loops : Pending(l) = 1

C11_StartupFallback ==
    /\ window = "emergency"
    /\ click_bound
    /\ mainloop = "running" => click_bound

====
